---------------------------- MODULE Spec2Model ----------------------------
(***************************************************************************)
(* A model of stocks (src/main.rs): a command-line program that reads     *)
(* accounts and holdings from a TOML file, looks every distinct ticker up  *)
(* at a quote endpoint (one spawned task per symbol, "stocks" first and    *)
(* "etf" as the fallback), joins the tasks and prints one table per        *)
(* account.                                                                *)
(*                                                                         *)
(* Numbers.  An f64 is modelled by the exact rational it denotes, a pair   *)
(* <<n, d>> in lowest terms with d > 0; the results of a division by zero  *)
(* are <<1, 0>> (inf), <<-1, 0>> (-inf) and <<0, 0>> (NaN).  Rounding to   *)
(* 53 bits and the sign of zero are not modelled.                          *)
(*                                                                         *)
(* Strings.  A Rust str is modelled as the sequence of its characters;     *)
(* Width gives the number of bytes of a character in UTF-8, which is what  *)
(* byte slicing depends on.                                                *)
(***************************************************************************)
EXTENDS Integers, Sequences, FiniteSets, TLC

VARIABLES
    pc,          \* where main is: "parse", "build", "dispatch", "join",
                 \* "print", "done", "panicked" ("lookup" in SpecLookup)
    config,      \* the contents of ~/.local/share/stocks.toml
    accounts,    \* main's accounts: Vec<Account>
    stock_info,  \* main's stock_info: HashMap<String, (f64, f64)>
    tasks,       \* the spawned tasks: symbol -> the state of its future
    requests,    \* the GETs sent so far: a set of <<symbol, class>>
    output,      \* what print has written: header and row records
    response,    \* SpecLookup: what the endpoint answers to the one call
    result       \* SpecLookup: what get_nasdaq_value returned

vars == <<pc, config, accounts, stock_info, tasks, requests, output,
          response, result>>

-----------------------------------------------------------------------------
(* Bounds of the model *)

\* the number of distinct ticker symbols a config file may name
NumSymbols == 2

\* the number of accounts a config file may hold
NumAccounts == 2

\* the longest lastSalePrice string the endpoint sends in SpecLookup
MaxLen == 4

-----------------------------------------------------------------------------
(* f64 arithmetic on exact rationals *)

Abs(n) == IF n < 0 THEN 0 - n ELSE n

Sgn(n) == IF n < 0 THEN 0 - 1 ELSE IF n > 0 THEN 1 ELSE 0

RECURSIVE GCD(_, _)
GCD(a, b) == IF b = 0 THEN a ELSE GCD(b, a % b)

\* the rational n/d (d # 0) in lowest terms with a positive denominator
Norm(n, d) ==
    LET g == GCD(Abs(n), Abs(d))
    IN  <<Sgn(d) * (n \div g), Abs(d) \div g>>

FInt(n) == <<n, 1>>

FAdd(a, b) == Norm(a[1] * b[2] + b[1] * a[2], a[2] * b[2])

FSub(a, b) == Norm(a[1] * b[2] - b[1] * a[2], a[2] * b[2])

FMul(a, b) == Norm(a[1] * b[1], a[2] * b[2])

\* f64 division of finite operands: x/0 is inf, -inf or NaN
FDiv(a, b) ==
    IF b[1] = 0 THEN <<Sgn(a[1]), 0>> ELSE Norm(a[1] * b[2], a[2] * b[1])

\* f < 0.0 (false for NaN)
FNeg(f) == f[1] < 0

\* (f64, f64)::default(), and the value main inserts for every symbol
ZeroQuote == <<FInt(0), FInt(0)>>

-----------------------------------------------------------------------------
(* Strings and Option *)

\* bytes of a character in UTF-8; "EUR" stands for the euro sign U+20AC
Width(c) == IF c = "EUR" THEN 3 ELSE 1

Digits == {"0", "1", "2", "3", "4", "5", "6", "7", "8", "9"}

IsDigit(c) == c \in Digits

DigitVal(c) ==
    CASE c = "0" -> 0 [] c = "1" -> 1 [] c = "2" -> 2 [] c = "3" -> 3
      [] c = "4" -> 4 [] c = "5" -> 5 [] c = "6" -> 6 [] c = "7" -> 7
      [] c = "8" -> 8 [] c = "9" -> 9

RECURSIVE Pow10(_)
Pow10(e) == IF e = 0 THEN 1 ELSE 10 * Pow10(e - 1)

RECURSIVE DecVal(_)
DecVal(ds) ==
    IF ds = <<>> THEN 0
    ELSE 10 * DecVal(SubSeq(ds, 1, Len(ds) - 1)) + DigitVal(ds[Len(ds)])

\* Option<(f64, f64)> and Option<f64>, plus the third way a call can end
Some(x) == [tag |-> "Some", v |-> x]

None == [tag |-> "None", v |-> <<>>]

Panic == [tag |-> "Panic", v |-> <<>>]

\* str::parse::<f64>().ok() on strings of signs, digits and points: an
\* optional sign, then digits with at most one point and at least one digit.
\* (Exponents, "inf" and "nan" need letters the model's strings do not hold.)
ParseF64(s) ==
    LET signed == Len(s) > 0 /\ s[1] \in {"+", "-"}
        body   == IF signed THEN Tail(s) ELSE s
        dots   == {i \in 1..Len(body) : body[i] = "."}
        digs   == SelectSeq(body, IsDigit)
        frac   == IF dots = {} THEN 0
                  ELSE Len(body) - (CHOOSE i \in dots : TRUE)
        m      == DecVal(digs)
    IN  IF \/ \E i \in 1..Len(body) : body[i] \notin Digits \cup {"."}
           \/ Cardinality(dots) > 1
           \/ digs = <<>>
        THEN None
        ELSE Some(Norm(IF s[1] = "-" THEN 0 - m ELSE m, Pow10(frac)))

\* price_str[1..]: the byte range from 1; it panics when 1 is past the end
\* or inside a multi-byte character
SliceFrom1(s) ==
    IF Len(s) = 0 \/ Width(s[1]) > 1 THEN Panic ELSE Some(Tail(s))

-----------------------------------------------------------------------------
(* The config file: toml values, and parse_accounts *)

\* A toml::Value is [type, f, v]: a float or an integer holds its number in
\* f, a table holds in v its entries <<key, value>> in key order (toml::Table
\* iterates in key order and holds a key once).
TFloat(f) == [type |-> "float", f |-> f, v |-> <<>>]

TInteger(n) == [type |-> "integer", f |-> FInt(n), v |-> <<>>]

TTable(entries) == [type |-> "table", f |-> FInt(0), v |-> entries]

\* Value::get(key): Some for a table that holds the key, else None
Get(val, key) ==
    IF val.type = "table" /\ \E i \in 1..Len(val.v) : val.v[i][1] = key
    THEN Some(val.v[CHOOSE i \in 1..Len(val.v) : val.v[i][1] = key][2])
    ELSE None

\* Value::as_float(): Some for a float only (an integer is not converted)
AsFloat(val) == IF val.type = "float" THEN Some(val.f) ELSE None

\* Value::as_table()
AsTable(val) == IF val.type = "table" THEN Some(val.v) ELSE None

\* GetFloat with unwrap_or_default() in place of the two unwrap()
GetFloatOrDefault(info, key) ==
    LET g == Get(info, key)
    IN  IF g.tag = "None" THEN Some(FInt(0))
        ELSE IF AsFloat(g.v).tag = "None" THEN Some(FInt(0)) ELSE AsFloat(g.v)

\* Option::unwrap() of an Option that was itself reached through an Option
GetFloat(info, key) ==
    LET g == Get(info, key)
    IN  IF g.tag = "None" THEN Panic
        ELSE IF AsFloat(g.v).tag = "None" THEN Panic ELSE AsFloat(g.v)

\* one turn of the inner loop of parse_accounts: the Stock of an entry
ParseStock(entry) ==
    LET amount     == GetFloat(entry[2], "num")
        cost_basis == GetFloat(entry[2], "price")
    IN  IF amount.tag = "Panic" \/ cost_basis.tag = "Panic" THEN Panic
        ELSE Some([symbol |-> entry[1], amount |-> amount.v,
                   cost_basis |-> cost_basis.v])

\* one turn of the outer loop of parse_accounts: the Account of an entry
ParseAccount(entry) ==
    LET t == AsTable(entry[2])
    IN  IF t.tag = "None" THEN Panic
        ELSE LET stocks == [j \in 1..Len(t.v) |-> ParseStock(t.v[j])]
             IN  IF \E j \in 1..Len(t.v) : stocks[j].tag = "Panic" THEN Panic
                 ELSE Some([name |-> entry[1],
                            stocks |-> [j \in 1..Len(t.v) |-> stocks[j].v]])

\* parse_accounts: every unwrap() that fails panics; nothing else happens
\* before it returns.  cfg is the file: [type |-> "nofile"] when it cannot
\* be opened or read, [type |-> "garbage"] when it is not TOML, else the
\* top-level table.
parse_accounts(cfg) ==
    IF cfg.type # "table" THEN Panic
    ELSE LET accts == [i \in 1..Len(cfg.v) |-> ParseAccount(cfg.v[i])]
         IN  IF \E i \in 1..Len(cfg.v) : accts[i].tag = "Panic" THEN Panic
             ELSE Some([i \in 1..Len(cfg.v) |-> accts[i].v])

-----------------------------------------------------------------------------
(* The config files the model reads *)

Symbol(i) == "SYM" \o ToString(i)

AcctName(i) == "acct" \o ToString(i)

Symbols == {Symbol(i) : i \in 1..NumSymbols}

\* the elements of a set of indices in increasing order
RECURSIVE Sorted(_)
Sorted(S) ==
    IF S = {} THEN <<>>
    ELSE LET m == CHOOSE x \in S : \A y \in S : x <= y
         IN  <<m>> \o Sorted(S \ {m})

\* the holding of symbol s in account a: 10 a units bought at 5.0
GoodInfo(a, s) ==
    TTable(<<<<"num", TFloat(FInt(10 * a))>>, <<"price", TFloat(FInt(5))>>>>)

\* the ways an entry of an account can be wrong
BadInfos ==
    { TTable(<<<<"price", TFloat(FInt(5))>>>>),
      TTable(<<<<"num", TFloat(FInt(10))>>>>),
      TTable(<<<<"num", TInteger(10)>>, <<"price", TFloat(FInt(5))>>>>),
      TFloat(FInt(5)) }

\* a well-formed account: a set of symbols, each held
GoodAccount(a, S) ==
    LET ss == Sorted(S)
    IN  TTable([j \in 1..Len(ss) |-> <<Symbol(ss[j]), GoodInfo(a, ss[j])>>])

\* the well-formed files: any number of accounts, each holding any symbols
GoodConfigs ==
    { TTable([i \in 1..Len(h) |-> <<AcctName(i), GoodAccount(i, h[i])>>]) :
        h \in UNION {[1..n -> SUBSET (1..NumSymbols)] : n \in 0..NumAccounts} }

\* cfg with the value of its i-th account replaced
SetAccount(cfg, i, val) ==
    TTable([cfg.v EXCEPT ![i] = <<cfg.v[i][1], val>>])

\* cfg with the value of the j-th holding of its i-th account replaced
SetHolding(cfg, i, j, info) ==
    LET acct == cfg.v[i][2]
    IN  SetAccount(cfg, i,
                   TTable([acct.v EXCEPT ![j] = <<acct.v[j][1], info>>]))

\* the file cannot be opened or read
NoFile == [type |-> "nofile", f |-> FInt(0), v |-> <<>>]

\* the file is not TOML
Garbage == [type |-> "garbage", f |-> FInt(0), v |-> <<>>]

\* the malformed files: no file, no TOML, or a well-formed file with one
\* account that is not a table or one holding that is wrong
BadConfigs ==
    {NoFile, Garbage}
    \cup { SetAccount(c, i, TFloat(FInt(5))) :
             <<c, i>> \in {ci \in GoodConfigs \X (1..NumAccounts) :
                             ci[2] <= Len(ci[1].v)} }
    \cup { SetHolding(x[1], x[2], x[3], x[4]) :
             x \in {y \in GoodConfigs \X (1..NumAccounts) \X (1..NumSymbols)
                                      \X BadInfos :
                      /\ y[2] <= Len(y[1].v)
                      /\ y[3] <= Len(y[1].v[y[2]][2].v)} }

Configs == GoodConfigs \cup BadConfigs

-----------------------------------------------------------------------------
(* The quote endpoint and get_nasdaq_value *)

\* A field of data.primaryData: a JSON string, or anything else (absent,
\* null, a number, or data itself null), for which as_str() is None.
JString(s) == [type |-> "string", s |-> s]

NotString == [type |-> "other", s |-> <<>>]

\* What a GET ends in: send() fails, text() fails, the body is not JSON, or
\* the body is JSON with the two fields.
SendErr == [net |-> "send_err", price |-> NotString, change |-> NotString]

TextErr == [net |-> "text_err", price |-> NotString, change |-> NotString]

NotJson == [net |-> "not_json", price |-> NotString, change |-> NotString]

Json(price, change) == [net |-> "json", price |-> price, change |-> change]

\* Value::as_str()
AsStr(field) == IF field.type = "string" THEN Some(field.s) ELSE None

\* get_nasdaq_value, from the answer to its GET: each `?` returns None, in
\* the order of the code; price_str[1..] is evaluated after both as_str()?
\* and before either parse.
get_nasdaq_value(resp) ==
    IF resp.net # "json" THEN None
    ELSE LET price_str  == AsStr(resp.price)
             change_str == AsStr(resp.change)
         IN  IF price_str.tag = "None" THEN None
             ELSE IF change_str.tag = "None" THEN None
             ELSE LET tail == SliceFrom1(price_str.v)
                  IN  IF tail.tag = "Panic" THEN Panic
                      ELSE LET price  == ParseF64(tail.v)
                               change == ParseF64(change_str.v)
                           IN  IF price.tag = "None" THEN None
                               ELSE IF change.tag = "None" THEN None
                               ELSE Some(<<price.v, change.v>>)

\* The answers the endpoint gives in Spec: every way a lookup can fail, two
\* quotes, and a price with no "$"
Responses ==
    { SendErr, TextErr, NotJson,
      Json(NotString, JString(<<"1">>)),
      Json(JString(<<"$", "6">>), NotString),
      Json(JString(<<"$", "x">>), JString(<<"1">>)),
      Json(JString(<<"$", "6">>), JString(<<"x">>)),
      Json(JString(<<"$", "6">>), JString(<<"1">>)),
      Json(JString(<<"$", "4", ".", "5">>), JString(<<"-", "1">>)),
      Json(JString(<<"1", "6">>), JString(<<"1">>)),
      Json(JString(<<>>), JString(<<"1">>)) }

\* what get_nasdaq_value can return in Spec: its value on every answer
LookupResults == {get_nasdaq_value(resp) : resp \in Responses}

-----------------------------------------------------------------------------
(* update_stock_info: the spawned tasks and the join *)

NotCalled == [tag |-> "NotCalled", v |-> <<>>]

\* A task as tokio::spawn leaves it: about to call get_nasdaq_value(&symbol,
\* "stocks").  stocks and etf hold what the two calls returned, val the
\* (f64, f64) the future resolves to.
Spawned ==
    [st |-> "stocks", stocks |-> NotCalled, etf |-> NotCalled,
     val |-> ZeroQuote]

\* the match on the "stocks" call: Some(x) ends the task with x, None goes
\* on to the "etf" call, a panic ends the task with a JoinError
AfterStocks(t, r) ==
    CASE r.tag = "Some"  -> [t EXCEPT !.st = "done", !.stocks = r, !.val = r.v]
      [] r.tag = "None"  -> [t EXCEPT !.st = "etf", !.stocks = r]
      [] r.tag = "Panic" -> [t EXCEPT !.st = "panicked", !.stocks = r]

\* AfterEtf that drops the etf result and always takes the default
AfterEtfDefault(t, r) ==
    CASE r.tag \in {"Some", "None"} -> [t EXCEPT !.st = "done", !.etf = r,
                                                 !.val = ZeroQuote]
      [] r.tag = "Panic" -> [t EXCEPT !.st = "panicked", !.etf = r]

\* the "etf" call and unwrap_or_default()
AfterEtf(t, r) ==
    CASE r.tag = "Some"  -> [t EXCEPT !.st = "done", !.etf = r, !.val = r.v]
      [] r.tag = "None"  -> [t EXCEPT !.st = "done", !.etf = r,
                                      !.val = ZeroQuote]
      [] r.tag = "Panic" -> [t EXCEPT !.st = "panicked", !.etf = r]

Finished(t) == t.st \in {"done", "panicked"}

\* JoinReady of a join that resolves with the first future that does
JoinReadyAny(ts) == DOMAIN ts = {} \/ \E s \in DOMAIN ts : Finished(ts[s])

\* join_all(futures).await is ready when every future is
JoinReady(ts) == \A s \in DOMAIN ts : Finished(ts[s])

\* .map(|res| res.unwrap()): a JoinError of any task panics main
JoinPanics(ts) == \E s \in DOMAIN ts : ts[s].st = "panicked"

\* Collect of tasks that all write one shared quote
CollectShared(ts) ==
    [s \in DOMAIN ts |-> ts[CHOOSE x \in DOMAIN ts : TRUE].val]

\* .collect() of the (symbol, quote) pairs into a HashMap
Collect(ts) == [s \in DOMAIN ts |-> ts[s].val]

-----------------------------------------------------------------------------
(* print *)

\* clr
clr(f) == IF FNeg(f) THEN "red" ELSE "green"

\* the figures of one row, as the body of the inner loop computes them
Row(stock, quote) ==
    LET price     == quote[1]
        net       == quote[2]
        old       == FAdd(price, net)
        net_perc  == FDiv(FMul(FSub(old, price), FInt(100)), old)
        total_net == FMul(FSub(price, stock.cost_basis), stock.amount)
        old2      == FMul(stock.cost_basis, stock.amount)
        new       == FMul(price, stock.amount)
        total_perc == FDiv(FMul(FSub(new, old2), FInt(100)), old2)
        gain      == FMul(net, stock.amount)
    IN  [kind |-> "row", name |-> stock.symbol, price |-> price,
         gain |-> gain, gain_clr |-> clr(gain),
         net_perc |-> net_perc, net_perc_clr |-> clr(net_perc),
         total_net |-> total_net, total_net_clr |-> clr(total_net),
         total_perc |-> total_perc, total_perc_clr |-> clr(total_perc)]

\* the rows of an account from the j-th on; stock_info[name] panics when the
\* map has no such key, and the rows before it have been written
RECURSIVE PrintRows(_, _, _)
PrintRows(stocks, j, info) ==
    IF j > Len(stocks) THEN [out |-> <<>>, ok |-> TRUE]
    ELSE IF stocks[j].symbol \notin DOMAIN info THEN [out |-> <<>>, ok |-> FALSE]
    ELSE LET rest == PrintRows(stocks, j + 1, info)
         IN  [out |-> <<Row(stocks[j], info[stocks[j].symbol])>> \o rest.out,
              ok |-> rest.ok]

\* print from the i-th account on: the account's name, the column header and
\* its rows, for each account in order
RECURSIVE PrintFrom(_, _, _)
PrintFrom(accts, i, info) ==
    IF i > Len(accts) THEN [out |-> <<>>, ok |-> TRUE]
    ELSE LET head == <<[kind |-> "account", name |-> accts[i].name],
                       [kind |-> "columns", name |-> "Symbol Price Net Net% Total Total%"]>>
             rows == PrintRows(accts[i].stocks, 1, info)
             rest == IF rows.ok THEN PrintFrom(accts, i + 1, info)
                     ELSE [out |-> <<>>, ok |-> FALSE]
         IN  [out |-> head \o rows.out \o rest.out, ok |-> rest.ok]

print(accts, info) == PrintFrom(accts, 1, info)

-----------------------------------------------------------------------------
(* main *)

\* the symbols of all holdings of all accounts
HeldSymbols(accts) ==
    {accts[i].stocks[j].symbol :
        <<i, j>> \in {ij \in (1..Len(accts)) \X (1..NumSymbols) :
                        ij[2] <= Len(accts[ij[1]].stocks)}}

\* InitialStockInfo that visits the first account only
InitialStockInfoFirstAccount(accts) ==
    [s \in HeldSymbols(IF accts = <<>> THEN accts ELSE <<accts[1]>>) |->
        ZeroQuote]

\* the two loops of main: stock_info.insert(symbol, (0.0, 0.0)) for every
\* holding; a symbol inserted again replaces itself
InitialStockInfo(accts) == [s \in HeldSymbols(accts) |-> ZeroQuote]

Init ==
    /\ pc = "parse"
    /\ config \in Configs
    /\ accounts = <<>>
    /\ stock_info = <<>>
    /\ tasks = <<>>
    /\ requests = {}
    /\ output = <<>>
    /\ response = SendErr
    /\ result = NotCalled

\* let accounts = parse_accounts(&path);
ParseAccounts ==
    /\ pc = "parse"
    /\ LET r == parse_accounts(config)
       IN  IF r.tag = "Panic"
           THEN pc' = "panicked" /\ UNCHANGED accounts
           ELSE pc' = "build" /\ accounts' = r.v
    /\ UNCHANGED <<config, stock_info, tasks, requests, output,
                   response, result>>

\* Dispatching that awaits the first task before it spawns the next
DispatchingEager(info, ts) ==
    IF DOMAIN ts # {} \/ DOMAIN info = {} THEN "join" ELSE "dispatch"

\* where main is once the tasks of ts are spawned: join_all collects the
\* whole iterator over info and only then awaits
Dispatching(info, ts) ==
    IF DOMAIN ts = DOMAIN info THEN "join" ELSE "dispatch"

\* the loops that fill stock_info, and the call of update_stock_info
BuildStockInfo ==
    /\ pc = "build"
    /\ stock_info' = InitialStockInfo(accounts)
    /\ pc' = Dispatching(stock_info', tasks)
    /\ UNCHANGED <<config, accounts, tasks, requests, output,
                   response, result>>

\* join_all collects its argument: the iterator over info spawns one task
\* per key, in the map's order, which is any order
Spawn(s) ==
    /\ pc = "dispatch"
    /\ s \in DOMAIN stock_info
    /\ s \notin DOMAIN tasks
    /\ tasks' = [x \in DOMAIN tasks \cup {s} |->
                    IF x = s THEN Spawned ELSE tasks[x]]
    /\ pc' = Dispatching(stock_info, tasks')
    /\ UNCHANGED <<config, accounts, stock_info, requests, output,
                   response, result>>

\* a task's first call: the GET with assetclass=stocks and what follows it
StocksLookup(s) ==
    /\ s \in DOMAIN tasks
    /\ tasks[s].st = "stocks"
    /\ \E r \in LookupResults :
         tasks' = [tasks EXCEPT ![s] = AfterStocks(tasks[s], r)]
    /\ requests' = requests \cup {<<s, "stocks">>}
    /\ UNCHANGED <<pc, config, accounts, stock_info, output,
                   response, result>>

\* a task's second call: the GET with assetclass=etf and what follows it
EtfLookup(s) ==
    /\ s \in DOMAIN tasks
    /\ tasks[s].st = "etf"
    /\ \E r \in LookupResults :
         tasks' = [tasks EXCEPT ![s] = AfterEtf(tasks[s], r)]
    /\ requests' = requests \cup {<<s, "etf">>}
    /\ UNCHANGED <<pc, config, accounts, stock_info, output,
                   response, result>>

\* join_all resolves, the results are unwrapped and collected, and
\* update_stock_info returns to main
Join ==
    /\ pc = "join"
    /\ JoinReady(tasks)
    /\ IF JoinPanics(tasks)
       THEN pc' = "panicked" /\ UNCHANGED stock_info
       ELSE pc' = "print" /\ stock_info' = Collect(tasks)
    /\ UNCHANGED <<config, accounts, tasks, requests, output,
                   response, result>>

\* print(&accounts, &stock_info);
Render ==
    /\ pc = "print"
    /\ LET p == print(accounts, stock_info)
       IN  /\ output' = p.out
           /\ pc' = IF p.ok THEN "done" ELSE "panicked"
    /\ UNCHANGED <<config, accounts, stock_info, tasks, requests,
                   response, result>>

Next ==
    \/ ParseAccounts
    \/ BuildStockInfo
    \/ \E s \in Symbols : Spawn(s)
    \/ \E s \in Symbols : StocksLookup(s)
    \/ \E s \in Symbols : EtfLookup(s)
    \/ Join
    \/ Render

Spec == Init /\ [][Next]_vars

-----------------------------------------------------------------------------
(* get_nasdaq_value alone, on every answer with a short price string *)

Alphabet == {"$", "1", "5", ".", "-", "x", "EUR"}

Strs(n) == UNION {[1..k -> Alphabet] : k \in 0..n}

ChangeFields ==
    {NotString, JString(<<"1">>), JString(<<"-", ".", "5">>),
     JString(<<"x">>), JString(<<>>)}

LookupInputs ==
    {SendErr, TextErr, NotJson}
    \cup {Json(p, c) : p \in {NotString} \cup {JString(s) : s \in Strs(MaxLen)},
                       c \in ChangeFields}

InitLookup ==
    /\ pc = "lookup"
    /\ response \in LookupInputs
    /\ result = NotCalled
    /\ config = NoFile
    /\ accounts = <<>>
    /\ stock_info = <<>>
    /\ tasks = <<>>
    /\ requests = {}
    /\ output = <<>>

\* one call of get_nasdaq_value, answered by response
LookupCall ==
    /\ pc = "lookup"
    /\ result' = get_nasdaq_value(response)
    /\ pc' = "returned"
    /\ UNCHANGED <<config, accounts, stock_info, tasks, requests, output,
                   response>>

SpecLookup == InitLookup /\ [][LookupCall]_vars

-----------------------------------------------------------------------------
(* What the claims speak of *)

\* update_stock_info has returned to main
Returned == pc \in {"print", "done"}

\* the symbols a config file names, read off the file itself
ConfigSymbols(cfg) ==
    IF cfg.type # "table" THEN {}
    ELSE UNION {{cfg.v[i][2].v[j][1] : j \in 1..Len(cfg.v[i][2].v)} :
                  i \in 1..Len(cfg.v)}

\* a number a holding needs is absent, or is no float
FieldWrong(info, key) ==
    \/ info.type # "table"
    \/ \A k \in 1..Len(info.v) :
          info.v[k][1] = key => info.v[k][2].type # "float"

\* the file is missing or no TOML, an account is no table, or a holding
\* lacks its quantity or its cost basis
Malformed(cfg) ==
    \/ cfg.type # "table"
    \/ \E i \in 1..Len(cfg.v) :
          \/ cfg.v[i][2].type # "table"
          \/ \E j \in 1..Len(cfg.v[i][2].v) :
                \/ FieldWrong(cfg.v[i][2].v[j][2], "num")
                \/ FieldWrong(cfg.v[i][2].v[j][2], "price")

\* the quote a symbol's own two lookups call for: the stocks result, else
\* the etf result, else (0.0, 0.0)
OwnQuote(t) ==
    IF t.stocks.tag = "Some" THEN t.stocks.v
    ELSE IF t.etf.tag = "Some" THEN t.etf.v
    ELSE ZeroQuote

\* both lookups of a task returned no result
BothFailed(t) == t.stocks.tag = "None" /\ t.etf.tag = "None"

-----------------------------------------------------------------------------
(* The claims *)

\* C1: whenever update_stock_info returns, the keys of the mapping it returns
\* are exactly the distinct symbols the config file names: none omitted, none
\* added, and a symbol held in several accounts is one key.
C1_KeysAreConfigSymbols ==
    Returned => DOMAIN stock_info = ConfigSymbols(config)

\* C1 witness: the mapping was returned for a file with two accounts that
\* hold the same symbol, and some symbol's two lookups both failed.
C1_Witness ==
    /\ pc = "print"
    /\ Len(accounts) = 2
    /\ \E s \in Symbols :
          \A i \in 1..2 :
             \E j \in 1..Len(accounts[i].stocks) :
                accounts[i].stocks[j].symbol = s
    /\ Cardinality(DOMAIN stock_info) = 2
    /\ \E s \in DOMAIN tasks : BothFailed(tasks[s])

\* C2: get_nasdaq_value is total: on every answer it returns a result or no
\* result, and never panics.
C2_LookupIsTotal ==
    pc = "returned" => result.tag \in {"Some", "None"}

\* C3: no lookup failure aborts the run: main panics only when the config
\* could not be parsed, so every run with a parsed config reaches print.
C3_NoAbortAfterParse ==
    pc = "panicked" => parse_accounts(config).tag = "Panic"

\* C4: a finished task whose stocks lookup failed and whose etf lookup
\* succeeded resolves to the etf result; one whose stocks lookup succeeded
\* resolves to the stocks result and no etf request was sent for its symbol;
\* and the mapping returned holds those quotes.
C4_FallbackCorrect ==
    \A s \in DOMAIN tasks :
       /\ tasks[s].st = "done" /\ tasks[s].stocks.tag = "None"
                               /\ tasks[s].etf.tag = "Some"
             => /\ tasks[s].val = tasks[s].etf.v
                /\ Returned => stock_info[s] = tasks[s].etf.v
       /\ tasks[s].stocks.tag = "Some"
             => /\ tasks[s].st = "done"
                /\ tasks[s].val = tasks[s].stocks.v
                /\ <<s, "etf">> \notin requests
                /\ Returned => stock_info[s] = tasks[s].stocks.v

\* C4 witness: the mapping was returned with one symbol quoted by its etf
\* lookup after its stocks lookup failed, and another by its stocks lookup.
C4_Witness ==
    /\ pc = "print"
    /\ \E s \in DOMAIN tasks :
          /\ tasks[s].stocks.tag = "None"
          /\ tasks[s].etf.tag = "Some"
          /\ stock_info[s] = tasks[s].etf.v
          /\ stock_info[s] # ZeroQuote
    /\ \E s \in DOMAIN tasks : tasks[s].stocks.tag = "Some"

\* C5: in the mapping returned, a symbol whose stocks and etf lookups both
\* failed has the quote (0.0, 0.0), and every other symbol has the quote its
\* own lookups call for.
C5_DefaultOnTotalFailure ==
    Returned =>
       \A s \in DOMAIN tasks :
          BothFailed(tasks[s]) =>
             /\ s \in DOMAIN stock_info
             /\ stock_info[s] = ZeroQuote
             /\ \A x \in DOMAIN tasks \ {s} :
                   /\ x \in DOMAIN stock_info
                   /\ stock_info[x] = OwnQuote(tasks[x])

\* C5 witness: the mapping was returned, one symbol's lookups both failed and
\* another symbol has a quote that is not zero.
C5_Witness ==
    /\ pc = "print"
    /\ \E s \in DOMAIN tasks :
          /\ BothFailed(tasks[s])
          /\ \E x \in DOMAIN tasks \ {s} : stock_info[x] # ZeroQuote

\* a "$" followed by a decimal number
DollarDecimal(s) ==
    Len(s) > 0 /\ s[1] = "$" /\ ParseF64(Tail(s)).tag = "Some"

\* C6: when both fields are strings and netChange is a number, a price "$"
\* followed by a decimal number yields that number, and every other price
\* string yields no result.
C6_PriceParsing ==
    (/\ pc = "returned"
     /\ response.net = "json"
     /\ response.price.type = "string"
     /\ response.change.type = "string"
     /\ ParseF64(response.change.s).tag = "Some")
    => IF DollarDecimal(response.price.s)
       THEN /\ result.tag = "Some"
            /\ result.v[1] = ParseF64(Tail(response.price.s)).v
       ELSE result.tag = "None"

\* C7: every row printed for a quote with price # net_change shows the
\* intraday percentage net_change / (price - net_change) * 100.
C7_IntradayPercent ==
    \A k \in 1..Len(output) :
       (/\ output[k].kind = "row"
        /\ stock_info[output[k].name][1] # stock_info[output[k].name][2])
       => LET price == stock_info[output[k].name][1]
              net   == stock_info[output[k].name][2]
          IN  output[k].net_perc
                 = FMul(FDiv(net, FSub(price, net)), FInt(100))

\* C8: once print has started, every symbol's task has been spawned and has
\* finished, and the table print reads holds every task's result.
C8_RenderAfterJoin ==
    (Returned \/ output # <<>>) =>
       /\ DOMAIN tasks = HeldSymbols(accounts)
       /\ \A s \in DOMAIN tasks : Finished(tasks[s])
       /\ DOMAIN stock_info = DOMAIN tasks
       /\ \A s \in DOMAIN tasks : stock_info[s] = tasks[s].val

\* C8 witness: rows for two symbols have been printed.
C8_Witness ==
    /\ pc = "done"
    /\ Cardinality(DOMAIN tasks) >= 2
    /\ \E k \in 1..Len(output) : output[k].kind = "row"

\* C9: while join_all awaits, every distinct symbol has its one task (all are
\* spawned before any is awaited), tasks not yet spawned have sent no request,
\* and the mapping returned is the one the tasks' own results determine,
\* whatever the order they finished in.
C9_DispatchThenAwait ==
    /\ pc \in {"join", "print", "done"} =>
          DOMAIN tasks = HeldSymbols(accounts)
    /\ \A r \in requests : r[1] \in DOMAIN tasks
    /\ Returned =>
          stock_info = [s \in HeldSymbols(accounts) |-> OwnQuote(tasks[s])]

\* C9 witness: while join_all awaits, the task of the second symbol has
\* finished with a quote and the task of the first is still at its first
\* lookup.
C9_Witness ==
    /\ pc = "join"
    /\ DOMAIN tasks = {Symbol(1), Symbol(2)}
    /\ tasks[Symbol(2)].st = "done"
    /\ tasks[Symbol(2)].val # ZeroQuote
    /\ tasks[Symbol(1)].st = "stocks"

\* C10: with a malformed config file no task is spawned, no request is sent
\* and nothing is printed: main is parsing or has panicked.
C10_MalformedAbortsFirst ==
    Malformed(config) =>
       /\ pc \in {"parse", "panicked"}
       /\ tasks = <<>>
       /\ requests = {}
       /\ output = <<>>

\* C10 witness: main has panicked on a file whose first account is well
\* formed and whose second account has a holding without its quantity.
C10_Witness ==
    /\ pc = "panicked"
    /\ config.type = "table"
    /\ Len(config.v) = 2
    /\ ParseAccount(config.v[1]).tag = "Some"
    /\ Len(config.v[1][2].v) > 0
    /\ config.v[2][2].type = "table"
    /\ \E j \in 1..Len(config.v[2][2].v) :
          Get(config.v[2][2].v[j][2], "num").tag = "None"

=============================================================================
